---- MODULE Spec2Model ----
(***************************************************************************)
(* A model of the Netcup webhook provider of external-dns                  *)
(* (provider/netcup.go): the translation between endpoints and remote DNS  *)
(* records, the grouping of remote records into endpoints, zone routing,   *)
(* identifier resolution, and the two operations Records and ApplyChanges  *)
(* running against the Netcup session.                                     *)
(*                                                                         *)
(* Go strings that the code inspects character by character (names,       *)
(* targets, destinations, record types, map keys) are sequences of        *)
(* one-character strings, so that HasSuffix, TrimSuffix, Trim, HasPrefix,  *)
(* Sprintf and SplitN are computed, not assumed.  Identifiers are only      *)
(* compared with "" and copied; they are plain strings.                    *)
(***************************************************************************)
EXTENDS Integers, Sequences, FiniteSets, TLC

VARIABLES
    recs,          \* translation harness: the zone snapshot (*[]nc.DnsRecord)
    call,          \* translation harness: the last function applied, its arguments and result
    domainFilter,  \* p.domainFilter.Filters: the configured zone names, in order
    dryRun,        \* p.dryRun
    remote,        \* the record list the Netcup API holds for every zone it knows
    nextId,        \* the next identifier the Netcup API assigns
    calls,         \* the transport calls of the last operation, in order
    ret,           \* the last operation: its name, its arguments and what it returned
    ops,           \* the number of operations called on the provider
    failures,      \* the number of transport calls that have failed
    session,       \* p.session, where operations run concurrently: the session stored last
    active,        \* the sessions the Netcup API has logged in and not logged out
    goroutine      \* where operations run concurrently: the position and the locals of each

vars == <<recs, call, domainFilter, dryRun, remote, nextId, calls, ret, ops, failures,
          session, active, goroutine>>

(***************************************************************************)
(* Bounds of the model.                                                    *)
(***************************************************************************)
MaxTargets == 2    \* targets of one endpoint
MaxRecs == 2       \* records of one record list
MaxZones == 2      \* configured zones
MaxChange == 1     \* endpoints of one change set
MaxOps == 2        \* operations called on one provider
MaxFailures == 1   \* transport calls that fail

(***************************************************************************)
(* Strings.                                                                *)
(***************************************************************************)
Q == "\""

\* strings.HasSuffix
HasSuffix(s, suffix) ==
    /\ Len(suffix) <= Len(s)
    /\ SubSeq(s, Len(s) - Len(suffix) + 1, Len(s)) = suffix

\* strings.HasPrefix
HasPrefix(s, prefix) ==
    /\ Len(prefix) <= Len(s)
    /\ SubSeq(s, 1, Len(prefix)) = prefix

\* strings.TrimSuffix: s without the suffix when it ends with it, s otherwise
TrimSuffix(s, suffix) ==
    IF HasSuffix(s, suffix) THEN SubSeq(s, 1, Len(s) - Len(suffix)) ELSE s

RECURSIVE TrimLeft(_, _)
TrimLeft(s, c) ==
    IF s # <<>> /\ Head(s) = c THEN TrimLeft(Tail(s), c) ELSE s

RECURSIVE TrimRight(_, _)
TrimRight(s, c) ==
    IF s # <<>> /\ s[Len(s)] = c THEN TrimRight(SubSeq(s, 1, Len(s) - 1), c) ELSE s

\* strings.Trim(s, "\""): every leading and every trailing double quote removed
Trim(s) == TrimRight(TrimLeft(s, Q), Q)

\* fmt.Sprintf("\"%s\"", s)
Quoted(s) == <<Q>> \o s \o <<Q>>

\* the index of the first occurrence of c in s, 0 when there is none
RECURSIVE IndexOf(_, _, _)
IndexOf(s, c, i) ==
    IF i > Len(s) THEN 0
    ELSE IF s[i] = c THEN i
    ELSE IndexOf(s, c, i + 1)

\* strings.SplitN(s, ":", 2)
SplitN2(s) ==
    LET i == IndexOf(s, ":", 1)
    IN  IF i = 0 THEN <<s>>
        ELSE <<SubSeq(s, 1, i - 1), SubSeq(s, i + 1, Len(s))>>

\* the sequences over S of length at most n
SeqsUpTo(S, n) == UNION {[1..k -> S] : k \in 0..n}

\* the elements of a sequence
Range(s) == {s[i] : i \in DOMAIN s}

RECURSIVE SumLen(_)
SumLen(ss) == IF ss = <<>> THEN 0 ELSE Len(Head(ss)) + SumLen(Tail(ss))

(***************************************************************************)
(* Record types, names and values of the model.                            *)
(***************************************************************************)
TypeA == <<"A">>
TypeAAAA == <<"A", "A", "A", "A">>
TypeTXT == <<"T", "X", "T">>
TypeMX == <<"M", "X">>
Types == {TypeA, TypeAAAA, TypeTXT, TypeMX}

At == <<"@">>

ZoneBC == <<"b", ".", "c">>                  \* "b.c"
ZoneABC == <<"a", ".", "b", ".", "c">>       \* "a.b.c", a zone below b.c
ZoneDE == <<"d", ".", "e">>                  \* "d.e"

\* "5", "6", "7": addresses; "h", "g": text values
V5 == <<"5">>
V6 == <<"6">>
V7 == <<"7">>
VH == <<"h">>
VG == <<"g">>

\* "1 m", "x m": mail exchangers, with a priority and with a word in its place
VM1 == <<"1", " ", "m">>
VMX == <<"x", " ", "m">>

TargetPool(t) ==
    IF t = TypeA THEN {V5, V6}
    ELSE IF t = TypeAAAA THEN {V7}
    ELSE IF t = TypeMX THEN {VM1, VMX}
    ELSE {VH, Quoted(VH), Quoted(VG)}

\* endpoint.Endpoint
Endpoint(name, type, targets, ttl) ==
    [DNSName |-> name, RecordType |-> type, Targets |-> targets, RecordTTL |-> ttl]

\* nc.DnsRecord
DnsRecord(id, hostname, type, destination, delete) ==
    [Id |-> id, Hostname |-> hostname, Type |-> type, Priority |-> <<>>,
     Destination |-> destination, DeleteRecord |-> delete]


(***************************************************************************)
(* getIDforRecord: the identifier of the first snapshot record that        *)
(* matches the candidate, "" when none does.                               *)
(***************************************************************************)
\* a resolver that compares destinations as written, without stripping quotes
recordMatchesExact(rec, recordName, target, recordType) ==
    /\ recordType = rec.Type
    /\ target = rec.Destination
    /\ rec.Hostname = recordName

recordMatches(rec, recordName, target, recordType) ==
    LET targetToCompare == Trim(target)
        recDestinationToCompare == Trim(rec.Destination)
    IN  /\ recordType = rec.Type
        /\ targetToCompare = recDestinationToCompare
        /\ rec.Hostname = recordName

RECURSIVE getIDforRecord(_, _, _, _)
getIDforRecord(recordName, target, recordType, rs) ==
    IF rs = <<>> THEN ""
    ELSE IF recordMatches(Head(rs), recordName, target, recordType) THEN Head(rs).Id
    ELSE getIDforRecord(recordName, target, recordType, Tail(rs))

(***************************************************************************)
(* convertToNetcupRecord: one remote record per target of every endpoint.  *)
(***************************************************************************)
\* the zone-relative hostname of an endpoint, "@" for the zone itself
recordNameOf(ep, zoneName) ==
    LET recordName == TrimSuffix(ep.DNSName, <<".">> \o zoneName)
    IN  IF recordName = zoneName THEN At ELSE recordName

\* a translation that emits a record for every target, resolved or not
convertTargetKeepAll(rs, ep, recordName, target, Delete) ==
    <<[Id |-> IF Delete THEN getIDforRecord(recordName, target, ep.RecordType, rs) ELSE "",
       Hostname |-> recordName, Type |-> ep.RecordType, Priority |-> <<>>,
       Destination |-> Trim(target), DeleteRecord |-> Delete]>>

\* a translation that strips the quotes of ownership values only
convertTargetHeritage(rs, ep, recordName, target, Delete) ==
    LET id == IF Delete THEN getIDforRecord(recordName, target, ep.RecordType, rs) ELSE ""
    IN  IF Delete /\ id = "" THEN <<>>
        ELSE <<[Id |-> id, Hostname |-> recordName, Type |-> ep.RecordType,
                Priority |-> <<>>,
                Destination |-> IF ep.RecordType = TypeTXT /\ HasPrefix(target, <<Q, "g">>)
                                THEN Trim(target) ELSE target,
                DeleteRecord |-> Delete]>>

\* a translation that resolves the identifier for every batch
convertTargetResolved(rs, ep, recordName, target, Delete) ==
    LET id == getIDforRecord(recordName, target, ep.RecordType, rs)
    IN  IF Delete /\ id = "" THEN <<>>
        ELSE <<[Id |-> id, Hostname |-> recordName, Type |-> ep.RecordType,
                Priority |-> <<>>, Destination |-> Trim(target), DeleteRecord |-> Delete]>>

\* the body of the loop over the targets: no record or one record
convertTarget(rs, ep, recordName, target, Delete) ==
    LET id == IF Delete THEN getIDforRecord(recordName, target, ep.RecordType, rs) ELSE ""
    IN  IF Delete /\ id = "" THEN <<>>
        ELSE <<[Id |-> id, Hostname |-> recordName, Type |-> ep.RecordType,
                Priority |-> <<>>, Destination |-> Trim(target), DeleteRecord |-> Delete]>>

RECURSIVE convertTargets(_, _, _, _, _)
convertTargets(rs, ep, recordName, targets, Delete) ==
    IF targets = <<>> THEN <<>>
    ELSE convertTarget(rs, ep, recordName, Head(targets), Delete)
         \o convertTargets(rs, ep, recordName, Tail(targets), Delete)

\* a translation that emits one record per endpoint, for its first target
convertEndpointFirstTarget(rs, ep, zoneName, Delete) ==
    IF ep.Targets = <<>> THEN <<>>
    ELSE convertTarget(rs, ep, recordNameOf(ep, zoneName), Head(ep.Targets), Delete)

convertEndpoint(rs, ep, zoneName, Delete) ==
    convertTargets(rs, ep, recordNameOf(ep, zoneName), ep.Targets, Delete)

RECURSIVE convertToNetcupRecord(_, _, _, _)
convertToNetcupRecord(rs, endpoints, zoneName, Delete) ==
    IF endpoints = <<>> THEN <<>>
    ELSE convertEndpoint(rs, Head(endpoints), zoneName, Delete)
         \o convertToNetcupRecord(rs, Tail(endpoints), zoneName, Delete)

(***************************************************************************)
(* The grouping step of Records: remote records sharing type and hostname  *)
(* become one endpoint.                                                    *)
(***************************************************************************)
\* fmt.Sprintf("%s:%s", rec.Type, rec.Hostname)
recordKey(rec) == rec.Type \o <<":">> \o rec.Hostname

\* a grouping that passes every destination through as stored
groupDestinationRaw(rec) == rec.Destination

\* the destination as it enters the group: TXT values are wrapped in quotes
groupDestination(rec) ==
    IF rec.Type = TypeTXT /\ ~HasPrefix(rec.Destination, <<Q>>)
    THEN Quoted(rec.Destination)
    ELSE rec.Destination

\* a grouping in which a later record of a key replaces the earlier ones
RECURSIVE groupOfLast(_, _)
groupOfLast(rs, key) ==
    IF rs = <<>> THEN <<>>
    ELSE LET rest == groupOfLast(Tail(rs), key)
         IN  IF rest # <<>> THEN rest
             ELSE IF recordKey(Head(rs)) = key THEN <<groupDestination(Head(rs))>>
             ELSE <<>>

RECURSIVE groupOf(_, _)
groupOf(rs, key) ==
    IF rs = <<>> THEN <<>>
    ELSE (IF recordKey(Head(rs)) = key THEN <<groupDestination(Head(rs))>> ELSE <<>>)
         \o groupOf(Tail(rs), key)

\* recordGroups: the keys of the map, and the destinations under every key
recordGroupKeys(rs) == {recordKey(rs[i]) : i \in DOMAIN rs}
recordGroups(rs) == [key \in recordGroupKeys(rs) |-> groupOf(rs, key)]

\* the endpoint name of a group
groupName(hostname, domain) ==
    IF hostname = At THEN domain ELSE hostname \o <<".">> \o domain

\* the endpoints of the groups, the map being ranged over in the order `order`
RECURSIVE groupEndpoints(_, _, _, _)
groupEndpoints(groups, order, domain, ttl) ==
    IF order = <<>> THEN <<>>
    ELSE LET key == Head(order)
             parts == SplitN2(key)
             rest == groupEndpoints(groups, Tail(order), domain, ttl)
         IN  IF Len(parts) # 2 THEN rest
             ELSE <<Endpoint(groupName(parts[2], domain), parts[1], groups[key], ttl)>>
                  \o rest

\* the orders in which a Go map with the key set S can be ranged over
MapOrders(S) == {o \in [1..Cardinality(S) -> S] : Range(o) = S}

(***************************************************************************)
(* endpointZoneName: the longest zone name that is a suffix of the name.   *)
(***************************************************************************)
zoneMatches(name, zoneName, matchZoneName) ==
    HasSuffix(name, zoneName) /\ Len(zoneName) > Len(matchZoneName)

RECURSIVE endpointZoneNameFrom(_, _, _)
endpointZoneNameFrom(name, zones, matchZoneName) ==
    IF zones = <<>> THEN matchZoneName
    ELSE endpointZoneNameFrom(name, Tail(zones),
             IF zoneMatches(name, Head(zones), matchZoneName)
             THEN Head(zones) ELSE matchZoneName)

endpointZoneName(ep, zones) == endpointZoneNameFrom(ep.DNSName, zones, <<>>)

(***************************************************************************)
(* NewNetcupProvider: the provider, or nil and an error.                   *)
(***************************************************************************)
\* domainFilter.IsConfigured(): the filter holds a zone name
IsConfigured(filters) == Len(filters) > 0

\* what NewNetcupProvider returns
Constructed(provider, err) == [isNil |-> err, provider |-> provider, err |-> err]

\* a constructor that accepts an empty API password
NewNetcupProviderAnyPassword(domainFilterList, customerID, apiKey, apiPassword, dry) ==
    IF ~IsConfigured(domainFilterList) \/ customerID = 0 \/ apiKey = <<>>
    THEN Constructed(<<>>, TRUE)
    ELSE Constructed([domainFilter |-> domainFilterList, dryRun |-> dry], FALSE)

NewNetcupProvider(domainFilterList, customerID, apiKey, apiPassword, dry) ==
    IF ~IsConfigured(domainFilterList) THEN Constructed(<<>>, TRUE)
    ELSE IF customerID = 0 THEN Constructed(<<>>, TRUE)
    ELSE IF apiKey = <<>> THEN Constructed(<<>>, TRUE)
    ELSE IF apiPassword = <<>> THEN Constructed(<<>>, TRUE)
    ELSE Constructed([domainFilter |-> domainFilterList, dryRun |-> dry], FALSE)

(***************************************************************************)
(* The translation functions applied to bounded inputs.                    *)
(***************************************************************************)
HostA == <<"a">>
NameApex == ZoneBC                         \* "b.c", the zone itself
NameA == HostA \o <<".">> \o ZoneBC        \* "a.b.c"
ZoneTTL == 300

\* what InfoDnsRecords may hold for the zone b.c
SnapshotPool ==
    { DnsRecord("1", HostA, TypeA, V5, FALSE),
      DnsRecord("2", HostA, TypeTXT, VH, FALSE),
      DnsRecord("3", HostA, TypeTXT, Quoted(VH), FALSE),
      DnsRecord("", At, TypeA, V5, FALSE) }
Snapshots == SeqsUpTo(SnapshotPool, MaxRecs)

\* the record lists given to the grouping step
GroupPool ==
    { DnsRecord("1", HostA, TypeA, V5, FALSE),
      DnsRecord("2", HostA, TypeA, V6, FALSE),
      DnsRecord("3", HostA, TypeTXT, VH, FALSE),
      DnsRecord("4", HostA, TypeTXT, Quoted(VG), FALSE),
      DnsRecord("5", At, TypeA, V5, FALSE),
      DnsRecord("6", <<>>, TypeA, V5, FALSE),
      [DnsRecord("7", HostA, TypeMX, <<"m">>, FALSE) EXCEPT !.Priority = <<"1">>] }
RecordLists == SeqsUpTo(GroupPool, MaxRecs)

\* the endpoints of a change list: any type, up to MaxTargets targets
EndpointsNamed(name) ==
    UNION {{Endpoint(name, t, ts, 0) : ts \in SeqsUpTo(TargetPool(t), MaxTargets)} : t \in Types}

\* the change lists: at most one endpoint per name, in either order
EndpointLists ==
    {<<>>}
    \cup {<<e>> : e \in EndpointsNamed(NameApex) \cup EndpointsNamed(NameA)}
    \cup {<<e, f>> : e \in EndpointsNamed(NameApex), f \in EndpointsNamed(NameA)}
    \cup {<<f, e>> : e \in EndpointsNamed(NameApex), f \in EndpointsNamed(NameA)}

AllTargets == UNION {TargetPool(t) : t \in Types}

\* names and zone lists given to the router
RouteNames ==
    { NameApex, NameA, <<"x", ".">> \o NameA, <<"a", "b", ".", "c">>,
      <<"a", ".">> \o ZoneDE, <<"a", ".", "f">> }
ZonePool == {ZoneBC, ZoneABC, ZoneDE}
ZoneLists == {zs \in SeqsUpTo(ZonePool, MaxZones) : zs # <<>>}

\* one operation runs at a time: its session is the one its calls between
\* the login and the logout are made on, and no goroutine is modelled
NoSession == 0
Sequential ==
    /\ session = NoSession
    /\ active = {}
    /\ goroutine = <<>>

ProviderIdle ==
    /\ domainFilter = <<ZoneBC>>
    /\ dryRun = TRUE
    /\ remote = <<>>
    /\ nextId = 1
    /\ calls = <<>>
    /\ ret = [op |-> "none"]
    /\ ops = 0
    /\ failures = 0
    /\ Sequential

InitTranslate ==
    /\ recs \in Snapshots
    /\ call = [fn |-> "init"]
    /\ ProviderIdle

\* convertToNetcupRecord(recs, endpoints, zoneName, DeleteRecord)
Convert ==
    /\ call.fn = "init"
    /\ \E endpoints \in EndpointLists, Delete \in BOOLEAN :
          call' = [fn |-> "convert", endpoints |-> endpoints, zoneName |-> ZoneBC,
                   DeleteRecord |-> Delete,
                   records |-> convertToNetcupRecord(recs, endpoints, ZoneBC, Delete)]
    /\ UNCHANGED <<recs, domainFilter, dryRun, remote, nextId, calls, ret, ops, failures,
                   session, active, goroutine>>

\* the records of a create batch, read back through the grouping step of Records
Normalize ==
    /\ call.fn = "convert"
    /\ ~call.DeleteRecord
    /\ \E order \in MapOrders(recordGroupKeys(call.records)) :
          call' = [fn |-> "roundtrip", endpoints |-> call.endpoints,
                   zoneName |-> call.zoneName, records |-> call.records,
                   result |-> groupEndpoints(recordGroups(call.records), order,
                                             call.zoneName, ZoneTTL)]
    /\ UNCHANGED <<recs, domainFilter, dryRun, remote, nextId, calls, ret, ops, failures,
                   session, active, goroutine>>

\* the grouping step of Records on a record list of the zone
Group ==
    /\ call.fn = "init"
    /\ \E rs \in RecordLists :
          \E order \in MapOrders(recordGroupKeys(rs)) :
              call' = [fn |-> "group", records |-> rs, domain |-> ZoneBC,
                       result |-> groupEndpoints(recordGroups(rs), order, ZoneBC, ZoneTTL)]
    /\ UNCHANGED <<recs, domainFilter, dryRun, remote, nextId, calls, ret, ops, failures,
                   session, active, goroutine>>

\* getIDforRecord(recordName, target, recordType, recs)
Resolve ==
    /\ call.fn = "init"
    /\ \E recordName \in {HostA, At}, target \in AllTargets, recordType \in Types :
          call' = [fn |-> "resolve", recordName |-> recordName, target |-> target,
                   recordType |-> recordType,
                   id |-> getIDforRecord(recordName, target, recordType, recs)]
    /\ UNCHANGED <<recs, domainFilter, dryRun, remote, nextId, calls, ret, ops, failures,
                   session, active, goroutine>>

\* endpointZoneName(endpoint, zones)
Route ==
    /\ call.fn = "init"
    /\ \E name \in RouteNames, zones \in ZoneLists :
          call' = [fn |-> "route", name |-> name, zones |-> zones,
                   zone |-> endpointZoneName(Endpoint(name, TypeA, <<V5>>, 0), zones)]
    /\ UNCHANGED <<recs, domainFilter, dryRun, remote, nextId, calls, ret, ops, failures,
                   session, active, goroutine>>

\* the arguments given to the constructor
CustomerIDs == {0, 10}
ApiKeys == {<<>>, <<"K">>}
ApiPasswords == {<<>>, <<"P">>}

\* NewNetcupProvider(domainFilterList, customerID, apiKey, apiPassword, dryRun, logger)
Construct ==
    /\ call.fn = "init"
    /\ \E domainFilterList \in SeqsUpTo(ZonePool, MaxZones), customerID \in CustomerIDs,
          apiKey \in ApiKeys, apiPassword \in ApiPasswords, dry \in BOOLEAN :
          call' = [fn |-> "new", domainFilterList |-> domainFilterList,
                   customerID |-> customerID, apiKey |-> apiKey,
                   apiPassword |-> apiPassword, dryRun |-> dry,
                   result |-> NewNetcupProvider(domainFilterList, customerID, apiKey,
                                                apiPassword, dry)]
    /\ UNCHANGED <<recs, domainFilter, dryRun, remote, nextId, calls, ret, ops, failures,
                   session, active, goroutine>>

NextTranslate == Convert \/ Normalize \/ Group \/ Resolve \/ Route \/ Construct

SpecTranslate == InitTranslate /\ [][NextTranslate]_vars

(***************************************************************************)
(* toPunycode: idna.ToASCII of a zone name.  A label made of ASCII         *)
(* characters is kept; a label with a non-ASCII character is encoded with  *)
(* the prefix xn--; a label that has the prefix already must decode, and   *)
(* does not when it holds a character that is no punycode digit.           *)
(* "U" stands for the non-ASCII letter u-umlaut, whose encoding is tda.    *)
(***************************************************************************)
AcePrefix == <<"x", "n", "-", "-">>

\* strings.Split(s, ".")
RECURSIVE SplitLabels(_)
SplitLabels(s) ==
    LET i == IndexOf(s, ".", 1)
    IN  IF i = 0 THEN <<s>>
        ELSE <<SubSeq(s, 1, i - 1)>> \o SplitLabels(SubSeq(s, i + 1, Len(s)))

RECURSIVE JoinLabels(_)
JoinLabels(ls) ==
    IF Len(ls) = 1 THEN ls[1]
    ELSE ls[1] \o <<".">> \o JoinLabels(Tail(ls))

IsAscii(label) == \A i \in DOMAIN label : label[i] # "U"

\* the label does not decode
BadLabel(label) ==
    HasPrefix(label, AcePrefix) /\ \E i \in DOMAIN label : label[i] = "!"

AceLabel(label) ==
    IF IsAscii(label) THEN label
    ELSE IF label = <<"U">> THEN AcePrefix \o <<"t", "d", "a">>
    ELSE AcePrefix \o label

toPunycode(domain) ==
    LET labels == SplitLabels(domain)
    IN  IF \E i \in DOMAIN labels : BadLabel(labels[i])
        THEN [err |-> TRUE, name |-> <<>>]
        ELSE [err |-> FALSE,
              name |-> JoinLabels([i \in DOMAIN labels |-> AceLabel(labels[i])])]

(***************************************************************************)
(* The Netcup API as the provider sees it through the session.             *)
(***************************************************************************)
ZoneIDN == <<"U", ".", "c">>                          \* a zone with a non-ASCII label
ZoneBad == <<"x", "n", "-", "-", "!", ".", "c">>      \* a zone that cannot be encoded

ProviderZones == {ZoneBC, ZoneABC, ZoneIDN, ZoneBad}

\* the zones the account holds, by their ASCII names
RemoteZones == {toPunycode(z).name : z \in {ZoneBC, ZoneABC, ZoneIDN}}

\* what InfoDnsRecords returns: a pointer to the list, or nil with an error
RecsPointer(list) == [nil |-> FALSE, list |-> list]
NilRecs == [nil |-> TRUE, list |-> <<>>]

\* the records the API holds at the start, when it holds any
SeedRemote ==
    [z \in RemoteZones |->
        IF z = ZoneBC THEN <<DnsRecord("s1", HostA, TypeA, V5, FALSE),
                             DnsRecord("s2", HostA, TypeTXT, VH, FALSE)>>
        ELSE IF z = ZoneABC THEN <<DnsRecord("s3", At, TypeA, V5, FALSE)>>
        ELSE <<>>]

EmptyRemote == [z \in RemoteZones |-> <<>>]

\* UpdateDnsRecords on the remote side: a record flagged for deletion removes
\* the record of its Id, a record without Id is stored under a new Id, any
\* other record replaces the record of its Id
RECURSIVE applyBatch(_, _, _)
applyBatch(rs, batch, nid) ==
    IF batch = <<>> THEN [records |-> rs, nextId |-> nid]
    ELSE LET r == Head(batch)
         IN  IF r.DeleteRecord
             THEN applyBatch(SelectSeq(rs, LAMBDA x : x.Id # r.Id), Tail(batch), nid)
             ELSE IF r.Id = ""
             THEN applyBatch(Append(rs, [r EXCEPT !.Id = ToString(nid)]), Tail(batch), nid + 1)
             ELSE applyBatch([i \in DOMAIN rs |-> IF rs[i].Id = r.Id THEN r ELSE rs[i]],
                             Tail(batch), nid)

\* what InfoDnsRecords can answer for a zone: the list, an error when the
\* transport may fail, and for a zone without records the error with status
\* code 5029
FetchOutcomes(rs, mayFail) ==
    {"ok"} \cup (IF mayFail THEN {"error"} ELSE {}) \cup (IF rs = <<>> THEN {"5029"} ELSE {})

\* the transport fails at most MaxFailures times
MayFail(failed) == failed < MaxFailures

(***************************************************************************)
(* Records.                                                                *)
(***************************************************************************)
\* p.client.Login() and the assignment of p.session
ensureLogin(ok) == [err |-> ~ok, calls |-> <<[call |-> "Login", ok |-> ok]>>]

\* the outcomes of Login the transport allows
LoginOutcomes(failed) == {TRUE} \cup (IF MayFail(failed) THEN {FALSE} ELSE {})

Logout == [call |-> "Logout"]

\* a logout made on the success path only
deferLogoutOnSuccess(log, failed) == IF failed THEN log ELSE Append(log, Logout)

\* defer p.session.Logout(): the call made when the operation ends, also
\* when it ends with an error or a panic
deferLogout(log, failed) == Append(log, Logout)

\* what Records returns: a list and no error, or nil and an error; panic
\* marks a run ended by a nil pointer dereference
RecordsReturn(endpoints, err, panic, log, failed) ==
    [endpoints |-> endpoints, isNil |-> err \/ panic, err |-> err, panic |-> panic,
     calls |-> log, failures |-> failed]

\* the endpoints of one zone, for every order the map of groups can be ranged over
zoneEndpoints(rs, domain, ttl) ==
    {groupEndpoints(recordGroups(rs), order, domain, ttl) :
        order \in MapOrders(recordGroupKeys(rs))}

\* the loop of Records over the configured zones: the possible returns
RECURSIVE recordsZones(_, _, _, _)
recordsZones(zones, endpoints, log, failed) ==
    IF zones = <<>> THEN {RecordsReturn(endpoints, FALSE, FALSE, log, failed)}
    ELSE LET domain == Head(zones)
             punycodeDomain == toPunycode(domain)
             zoneCall(ok, ttl) == [call |-> "InfoDnsZone", zone |-> punycodeDomain.name,
                                   ok |-> ok, ttl |-> ttl]
             recsCall(o) == [call |-> "InfoDnsRecords", zone |-> punycodeDomain.name,
                             outcome |-> o]
             \* InfoDnsZone fails, or zone.Ttl does not parse
             zoneFailures ==
                 IF MayFail(failed)
                 THEN {RecordsReturn(<<>>, TRUE, FALSE, Append(log, zoneCall(FALSE, "")),
                                     failed + 1),
                       RecordsReturn(<<>>, TRUE, FALSE, Append(log, zoneCall(TRUE, "x")),
                                     failed + 1)}
                 ELSE {}
             fetched(o) ==
                 LET log3 == log \o <<zoneCall(TRUE, "300"), recsCall(o)>>
                 IN  IF o = "error" THEN {RecordsReturn(<<>>, TRUE, FALSE, log3, failed + 1)}
                     \* no records: the error is logged and the nil list is ranged over
                     ELSE IF o = "5029" THEN {RecordsReturn(<<>>, FALSE, TRUE, log3, failed)}
                     ELSE UNION {recordsZones(Tail(zones), endpoints \o eps, log3, failed) :
                                    eps \in zoneEndpoints(remote[punycodeDomain.name],
                                                          domain, ZoneTTL)}
         IN  IF punycodeDomain.err THEN {RecordsReturn(<<>>, TRUE, FALSE, log, failed)}
             ELSE zoneFailures
                  \cup UNION {fetched(o) :
                                o \in FetchOutcomes(remote[punycodeDomain.name],
                                                    MayFail(failed))}

\* a provider that logs in also in a dry run
loginNeverSkipped(dry) == FALSE

\* if p.dryRun: "dry run - skipping login"
loginSkipped(dry) == dry

\* Records(ctx)
Records ==
    /\ ops < MaxOps
    /\ ops' = ops + 1
    /\ IF loginSkipped(dryRun)
       THEN /\ calls' = <<>>
            /\ ret' = [op |-> "Records", endpoints |-> <<>>, isNil |-> FALSE,
                       err |-> FALSE, panic |-> FALSE]
            /\ failures' = failures
       ELSE \E loginOk \in LoginOutcomes(failures) :
               IF ensureLogin(loginOk).err
               THEN /\ calls' = ensureLogin(loginOk).calls
                    /\ ret' = [op |-> "Records", endpoints |-> <<>>, isNil |-> TRUE,
                               err |-> TRUE, panic |-> FALSE]
                    /\ failures' = failures + 1
               ELSE \E r \in recordsZones(domainFilter, <<>>, ensureLogin(loginOk).calls,
                                          failures) :
                       \* defer p.session.Logout()
                       /\ calls' = deferLogout(r.calls, r.err \/ r.panic)
                       /\ ret' = [op |-> "Records", endpoints |-> r.endpoints,
                                  isNil |-> r.isNil, err |-> r.err, panic |-> r.panic]
                       /\ failures' = r.failures
    /\ UNCHANGED <<recs, call, domainFilter, dryRun, remote, nextId, session, active, goroutine>>

(***************************************************************************)
(* ApplyChanges.                                                           *)
(***************************************************************************)
\* plan.Changes
Changes(create, updateOld, updateNew, delete) ==
    [Create |-> create, UpdateOld |-> updateOld, UpdateNew |-> updateNew, Delete |-> delete]

\* a check that finds changes in every change set
HasChangesAlways(changes) == TRUE

\* changes.HasChanges(): something to create or delete, or updates that differ
HasChanges(changes) ==
    \/ changes.Create # <<>>
    \/ changes.Delete # <<>>
    \/ changes.UpdateNew # changes.UpdateOld

\* a loop over the configured zones that skips a zone whose name cannot be
\* encoded, without an error
RECURSIVE initPlanSkipping(_, _)
initPlanSkipping(zones, perZoneChanges) ==
    IF zones = <<>> THEN [err |-> FALSE, perZoneChanges |-> perZoneChanges]
    ELSE LET newZoneName == toPunycode(Head(zones))
         IN  initPlanSkipping(Tail(zones),
                 IF newZoneName.err THEN perZoneChanges
                 ELSE [z \in DOMAIN perZoneChanges \cup {newZoneName.name} |->
                          Changes(<<>>, <<>>, <<>>, <<>>)])

\* perZoneChanges after the loop over the configured zones, or the error of toPunycode
RECURSIVE initPlan(_, _)
initPlan(zones, perZoneChanges) ==
    IF zones = <<>> THEN [err |-> FALSE, perZoneChanges |-> perZoneChanges]
    ELSE LET newZoneName == toPunycode(Head(zones))
         IN  IF newZoneName.err THEN [err |-> TRUE, perZoneChanges |-> perZoneChanges]
             ELSE initPlan(Tail(zones),
                           [z \in DOMAIN perZoneChanges \cup {newZoneName.name} |->
                               Changes(<<>>, <<>>, <<>>, <<>>)])

\* the zones the inner loop of processChanges can stop at: ranging over the
\* map in any order, it breaks at the first zone that is a suffix of the name
matchedZones(perZoneChanges, ep) ==
    {zone \in DOMAIN perZoneChanges : HasSuffix(ep.DNSName, zone)}

\* processChanges for one list: the plans it can lead to from the plans given
RECURSIVE processChanges(_, _, _)
processChanges(plans, changeType, endpoints) ==
    IF endpoints = <<>> THEN plans
    ELSE LET ep == Head(endpoints)
             routed(pl) ==
                 IF matchedZones(pl, ep) = {} THEN {pl}
                 ELSE {[pl EXCEPT ![zoneName][changeType] = Append(@, ep)] :
                          zoneName \in matchedZones(pl, ep)}
         IN  processChanges(UNION {routed(pl) : pl \in plans}, changeType, Tail(endpoints))

\* the four calls of processChanges
processAll(perZoneChanges, changes) ==
    LET p1 == processChanges({perZoneChanges}, "Create", changes.Create)
        p2 == processChanges(p1, "UpdateOld", changes.UpdateOld)
        p3 == processChanges(p2, "UpdateNew", changes.UpdateNew)
    IN  processChanges(p3, "Delete", changes.Delete)

\* convertToNetcupRecord dereferences recs in getIDforRecord only: a nil recs
\* ends in a nil pointer dereference when a deletion batch has a target
convertPanics(rs, endpoints, Delete) ==
    /\ rs.nil
    /\ Delete
    /\ \E i \in DOMAIN endpoints : endpoints[i].Targets # <<>>

\* submissions that leave the update-old batch out
zoneBatchesWithoutUpdateOld(rs, c, zoneName) ==
    LET snapshot == rs.list
    IN  << [batch |-> "Delete", records |-> convertToNetcupRecord(snapshot, c.Delete, zoneName, TRUE)],
           [batch |-> "Create", records |-> convertToNetcupRecord(snapshot, c.Create, zoneName, FALSE)],
           [batch |-> "UpdateNew", records |-> convertToNetcupRecord(snapshot, c.UpdateNew, zoneName, FALSE)] >>

\* the four submissions of a zone, in the order of the code
zoneBatches(rs, c, zoneName) ==
    LET snapshot == rs.list
    IN  << [batch |-> "UpdateOld", records |-> convertToNetcupRecord(snapshot, c.UpdateOld, zoneName, TRUE)],
           [batch |-> "Delete", records |-> convertToNetcupRecord(snapshot, c.Delete, zoneName, TRUE)],
           [batch |-> "Create", records |-> convertToNetcupRecord(snapshot, c.Create, zoneName, FALSE)],
           [batch |-> "UpdateNew", records |-> convertToNetcupRecord(snapshot, c.UpdateNew, zoneName, FALSE)] >>

\* UpdateDnsRecords for the batches from the k-th on; `failAt` is the batch
\* whose submission fails, 0 when none does
RECURSIVE submitBatches(_, _, _, _, _)
submitBatches(batches, k, failAt, zoneName, st) ==
    IF k > Len(batches) THEN st
    ELSE LET entry(ok) == [call |-> "UpdateDnsRecords", zone |-> zoneName,
                           batch |-> batches[k].batch, records |-> batches[k].records,
                           ok |-> ok]
         IN  IF k = failAt
             THEN [st EXCEPT !.calls = Append(@, entry(FALSE)), !.err = TRUE,
                             !.failures = @ + 1]
             ELSE LET applied == applyBatch(st.remote[zoneName], batches[k].records, st.nextId)
                  IN  submitBatches(batches, k + 1, failAt, zoneName,
                          [st EXCEPT !.calls = Append(@, entry(TRUE)),
                                     !.remote[zoneName] = applied.records,
                                     !.nextId = applied.nextId])

\* the loop of ApplyChanges over perZoneChanges, ranged over in the order
\* `order`: the possible outcomes
RECURSIVE applyZones(_, _, _)
applyZones(order, perZoneChanges, st) ==
    IF order = <<>> THEN {st}
    ELSE LET zoneName == Head(order)
             c == perZoneChanges[zoneName]
             fetched(o) ==
                 LET rs == IF o = "ok" THEN RecsPointer(st.remote[zoneName]) ELSE NilRecs
                     st1 == [st EXCEPT !.calls = Append(@, [call |-> "InfoDnsRecords",
                                                            zone |-> zoneName, outcome |-> o]),
                                       !.failures = IF o = "error" THEN @ + 1 ELSE @]
                     batches == zoneBatches(rs, c, zoneName)
                     submitted(failAt) ==
                         LET st2 == submitBatches(batches, 1, failAt, zoneName, st1)
                         IN  IF st2.err THEN {st2}
                             ELSE applyZones(Tail(order), perZoneChanges, st2)
                 IN  IF convertPanics(rs, c.UpdateOld, TRUE) \/ convertPanics(rs, c.Delete, TRUE)
                     THEN {[st1 EXCEPT !.panic = TRUE]}
                     ELSE UNION {submitted(failAt) :
                                   failAt \in 0..(IF MayFail(st1.failures)
                                                  THEN Len(batches) ELSE 0)}
         IN  UNION {fetched(o) : o \in FetchOutcomes(st.remote[zoneName],
                                                     MayFail(st.failures))}

\* the endpoints of the change sets
NameX == <<"x", ".">> \o NameA               \* "x.a.b.c", below both b.c and a.b.c
NameOut == <<"a", ".">> \o ZoneDE            \* "a.d.e", in no configured zone

ChangeEndpoints ==
    { Endpoint(NameA, TypeA, <<V5>>, 0),
      Endpoint(NameA, TypeA, <<V6>>, 0),
      Endpoint(NameX, TypeTXT, <<Quoted(VH)>>, 0),
      Endpoint(NameOut, TypeA, <<V5>>, 0) }

\* the change sets of a plan with up to n endpoints: an update keeps the name
\* and the type
ChangeSetsUpTo(n) ==
    {cs \in [Create : SeqsUpTo(ChangeEndpoints, n),
             UpdateOld : SeqsUpTo(ChangeEndpoints, n),
             UpdateNew : SeqsUpTo(ChangeEndpoints, n),
             Delete : SeqsUpTo(ChangeEndpoints, n)] :
        /\ Len(cs.UpdateOld) = Len(cs.UpdateNew)
        /\ \A i \in DOMAIN cs.UpdateOld :
              /\ cs.UpdateOld[i].DNSName = cs.UpdateNew[i].DNSName
              /\ cs.UpdateOld[i].RecordType = cs.UpdateNew[i].RecordType
        /\ Len(cs.Create) + Len(cs.UpdateNew) + Len(cs.Delete) <= n}

ChangeSets == ChangeSetsUpTo(MaxChange)

ApplyReturn(changes, planned, perZoneChanges, err, panic) ==
    [op |-> "ApplyChanges", changes |-> changes, planned |-> planned,
     perZoneChanges |-> perZoneChanges, err |-> err, panic |-> panic]

\* ApplyChanges(ctx, changes), for the change sets the caller may pass
ApplyChangesOf(changeSets) ==
    /\ ops < MaxOps
    /\ ops' = ops + 1
    /\ \E changes \in changeSets :
          IF ~HasChanges(changes)
          THEN /\ calls' = <<>>
               /\ ret' = ApplyReturn(changes, FALSE, <<>>, FALSE, FALSE)
               /\ UNCHANGED <<remote, nextId, failures>>
          ELSE \E loginOk \in IF loginSkipped(dryRun) THEN {TRUE} ELSE LoginOutcomes(failures) :
                  LET login == IF loginSkipped(dryRun) THEN [err |-> FALSE, calls |-> <<>>]
                               ELSE ensureLogin(loginOk)
                      \* defer p.session.Logout()
                      deferred(log, failed) ==
                          IF loginSkipped(dryRun) THEN log ELSE deferLogout(log, failed)
                      zones == initPlan(domainFilter, <<>>)
                  IN  IF login.err
                      THEN /\ calls' = login.calls
                           /\ ret' = ApplyReturn(changes, FALSE, <<>>, TRUE, FALSE)
                           /\ failures' = failures + 1
                           /\ UNCHANGED <<remote, nextId>>
                      ELSE IF zones.err
                      THEN /\ calls' = deferred(login.calls, TRUE)
                           /\ ret' = ApplyReturn(changes, FALSE, <<>>, TRUE, FALSE)
                           /\ UNCHANGED <<remote, nextId, failures>>
                      ELSE \E perZoneChanges \in processAll(zones.perZoneChanges, changes) :
                              IF dryRun
                              THEN /\ calls' = deferred(login.calls, FALSE)
                                   /\ ret' = ApplyReturn(changes, TRUE, perZoneChanges, FALSE, FALSE)
                                   /\ UNCHANGED <<remote, nextId, failures>>
                              ELSE \E order \in MapOrders(DOMAIN perZoneChanges) :
                                      \E st \in applyZones(order, perZoneChanges,
                                                   [remote |-> remote, nextId |-> nextId,
                                                    calls |-> login.calls, err |-> FALSE,
                                                    panic |-> FALSE, failures |-> failures]) :
                                          /\ remote' = st.remote
                                          /\ nextId' = st.nextId
                                          /\ failures' = st.failures
                                          /\ calls' = deferred(st.calls, st.err \/ st.panic)
                                          /\ ret' = ApplyReturn(changes, TRUE, perZoneChanges,
                                                                st.err, st.panic)
    /\ UNCHANGED <<recs, domainFilter, dryRun, session, active, goroutine>>

ApplyChanges == ApplyChangesOf(ChangeSets) /\ UNCHANGED call

\* NewNetcupProvider with a valid configuration, against an account that
\* holds records or none
Init ==
    /\ recs = <<>>
    /\ call = [fn |-> "none"]
    /\ domainFilter \in {zs \in SeqsUpTo(ProviderZones, MaxZones) :
                            zs # <<>> /\ \A i, j \in DOMAIN zs : zs[i] = zs[j] => i = j}
    /\ dryRun \in BOOLEAN
    /\ remote \in {SeedRemote, EmptyRemote}
    /\ nextId = 1
    /\ calls = <<>>
    /\ ret = [op |-> "none"]
    /\ ops = 0
    /\ failures = 0
    /\ Sequential

Next == Records \/ ApplyChanges

Spec == Init /\ [][Next]_vars

(***************************************************************************)
(* Properties of the translation functions, checked under SpecTranslate.   *)
(***************************************************************************)
\* the zone-relative hostname the documentation asks for
RelativeName(name, zoneName) ==
    IF name = zoneName THEN At
    ELSE IF HasSuffix(name, <<".">> \o zoneName)
         THEN SubSeq(name, 1, Len(name) - Len(zoneName) - 1)
         ELSE name

\* the number of targets of the endpoints before the k-th
RECURSIVE TargetsBefore(_, _)
TargetsBefore(endpoints, k) ==
    IF k <= 1 THEN 0
    ELSE TargetsBefore(endpoints, k - 1) + Len(endpoints[k - 1].Targets)

\* a target wrapped in exactly one pair of double quotes
OnePairQuoted(t) ==
    /\ Len(t) >= 2
    /\ t[1] = Q
    /\ t[Len(t)] = Q
    /\ LET inner == SubSeq(t, 2, Len(t) - 1)
       IN  inner = <<>> \/ (inner[1] # Q /\ inner[Len(inner)] # Q)

\* the index set of the snapshot records that match a candidate on type,
\* hostname and quote-stripped destination
Matching(rs, recordName, target, recordType) ==
    {i \in DOMAIN rs : /\ rs[i].Type = recordType
                       /\ rs[i].Hostname = recordName
                       /\ Trim(rs[i].Destination) = Trim(target)}

Min(S) == CHOOSE x \in S : \A y \in S : x <= y

\* C1: every record of a deletion batch carries a non-empty Id and the
\* deletion flag, and a target that getIDforRecord resolves to no identifier
\* leaves no record in the batch.
C1_DeletionSafety ==
    (call.fn = "convert" /\ call.DeleteRecord) =>
        /\ \A i \in DOMAIN call.records :
              call.records[i].Id # "" /\ call.records[i].DeleteRecord
        /\ \A k \in DOMAIN call.endpoints :
              LET ep == call.endpoints[k]
                  host == RelativeName(ep.DNSName, call.zoneName)
              IN  \A j \in DOMAIN ep.Targets :
                      Matching(recs, host, ep.Targets[j], ep.RecordType) = {}
                      \/ recs[Min(Matching(recs, host, ep.Targets[j], ep.RecordType))].Id = ""
                      => ~\E i \in DOMAIN call.records :
                              /\ call.records[i].Hostname = host
                              /\ call.records[i].Type = ep.RecordType
                              /\ call.records[i].Destination = Trim(ep.Targets[j])

\* a deletion batch of an endpoint with one resolved and one unresolved target
C1_Witness ==
    /\ call.fn = "convert"
    /\ call.DeleteRecord
    /\ Len(call.endpoints) = 1
    /\ Len(call.endpoints[1].Targets) = 2
    /\ Len(call.records) = 1
    /\ call.records[1].Id = "1"

\* C2 as stated: a create/update batch holds, for every endpoint and every
\* target, one record with the zone-relative hostname, the type, and the
\* target itself as destination.
C2_Original ==
    (call.fn = "convert" /\ ~call.DeleteRecord) =>
        /\ Len(call.records) = SumLen([k \in DOMAIN call.endpoints |-> call.endpoints[k].Targets])
        /\ \A k \in DOMAIN call.endpoints :
              LET ep == call.endpoints[k]
              IN  \A j \in DOMAIN ep.Targets :
                      LET r == call.records[TargetsBefore(call.endpoints, k) + j]
                      IN  /\ r.Hostname = RelativeName(ep.DNSName, call.zoneName)
                          /\ r.Type = ep.RecordType
                          /\ r.Destination = ep.Targets[j]

\* C2 (amended): a create/update batch holds, for every endpoint and every
\* target, in order, one record with the zone-relative hostname, the type,
\* and the target without its surrounding double quotes as destination; the
\* batch has as many records as the endpoints have targets.
C2_CardinalityExpansion ==
    (call.fn = "convert" /\ ~call.DeleteRecord) =>
        /\ Len(call.records) = SumLen([k \in DOMAIN call.endpoints |-> call.endpoints[k].Targets])
        /\ \A k \in DOMAIN call.endpoints :
              LET ep == call.endpoints[k]
              IN  \A j \in DOMAIN ep.Targets :
                      LET r == call.records[TargetsBefore(call.endpoints, k) + j]
                      IN  /\ r.Hostname = RelativeName(ep.DNSName, call.zoneName)
                          /\ r.Type = ep.RecordType
                          /\ r.Destination = Trim(ep.Targets[j])

\* a create batch of two endpoints, three targets, one of them quoted
C2_Witness ==
    /\ call.fn = "convert"
    /\ ~call.DeleteRecord
    /\ Len(call.endpoints) = 2
    /\ Len(call.records) = 3
    /\ \E j \in DOMAIN call.endpoints[1].Targets : call.endpoints[1].Targets[j] = Quoted(VH)

\* the endpoints of a round trip that have the name and type of ep
ReadBack(ep) ==
    {i \in DOMAIN call.result : /\ call.result[i].DNSName = ep.DNSName
                                /\ call.result[i].RecordType = ep.RecordType}

\* C3 as stated: every endpoint of type A, AAAA or TXT (with at least one
\* target) translates to as many records as it has targets and reads back as
\* one endpoint with the same target set.
C3_Original ==
    call.fn = "roundtrip" =>
        \A k \in DOMAIN call.endpoints :
            LET ep == call.endpoints[k]
            IN  ep.Targets # <<>> =>
                  /\ Cardinality(ReadBack(ep)) = 1
                  /\ \A i \in ReadBack(ep) : Range(call.result[i].Targets) = Range(ep.Targets)

\* the targets that the remote store can hold and give back unchanged
Storable(ep) ==
    /\ ep.Targets # <<>>
    /\ \A j \in DOMAIN ep.Targets :
          IF ep.RecordType = TypeTXT THEN OnePairQuoted(ep.Targets[j])
          ELSE Trim(ep.Targets[j]) = ep.Targets[j]

\* C3 (amended): every endpoint of type A, AAAA or TXT with N >= 1 targets,
\* whose TXT targets are each wrapped in one pair of double quotes and whose
\* A/AAAA targets neither begin nor end with a double quote, translates to N
\* records and reads back as one endpoint with the same target set.
C3_RoundTrip ==
    call.fn = "roundtrip" =>
        \A k \in DOMAIN call.endpoints :
            LET ep == call.endpoints[k]
            IN  Storable(ep) =>
                  /\ Cardinality({i \in DOMAIN call.records :
                                     /\ call.records[i].Hostname = RelativeName(ep.DNSName, call.zoneName)
                                     /\ call.records[i].Type = ep.RecordType}) = Len(ep.Targets)
                  /\ Cardinality(ReadBack(ep)) = 1
                  /\ \A i \in ReadBack(ep) : Range(call.result[i].Targets) = Range(ep.Targets)

\* a TXT endpoint with two different quoted targets read back
C3_Witness ==
    /\ call.fn = "roundtrip"
    /\ \E k \in DOMAIN call.endpoints :
          /\ call.endpoints[k].RecordType = TypeTXT
          /\ Range(call.endpoints[k].Targets) = {Quoted(VH), Quoted(VG)}
          /\ \E i \in ReadBack(call.endpoints[k]) :
                Range(call.result[i].Targets) = {Quoted(VH), Quoted(VG)}

\* C4: a TXT target wrapped in one pair of double quotes is stored without
\* the quotes, and reading the stored record back gives the quoted target.
C4_TxtQuotingStable ==
    call.fn = "roundtrip" =>
        \A k \in DOMAIN call.endpoints :
            LET ep == call.endpoints[k]
            IN  \A j \in DOMAIN ep.Targets :
                    (ep.RecordType = TypeTXT /\ OnePairQuoted(ep.Targets[j])) =>
                        LET r == call.records[TargetsBefore(call.endpoints, k) + j]
                        IN  /\ r.Destination = SubSeq(ep.Targets[j], 2, Len(ep.Targets[j]) - 1)
                            /\ \A i \in ReadBack(ep) :
                                  /\ Len(call.result[i].Targets) = Len(ep.Targets)
                                  /\ call.result[i].Targets[j] = ep.Targets[j]
                            /\ ReadBack(ep) # {}

\* a quoted TXT target stored as h and read back as "h"
C4_Witness ==
    /\ call.fn = "roundtrip"
    /\ Len(call.endpoints) = 1
    /\ call.endpoints[1].RecordType = TypeTXT
    /\ call.endpoints[1].Targets = <<Quoted(VH)>>
    /\ call.records[1].Destination = VH
    /\ call.result[1].Targets = <<Quoted(VH)>>

\* the (type, hostname) pairs of a record list
PairsOf(rs) == {<<rs[i].Type, rs[i].Hostname>> : i \in DOMAIN rs}

\* the destinations of the records of a pair
DestinationsOf(rs, pair) ==
    {rs[i].Destination : i \in {n \in DOMAIN rs : <<rs[n].Type, rs[n].Hostname>> = pair}}

\* the destinations of the records of a pair, as targets: a TXT destination
\* that does not begin with a double quote is wrapped in one pair
TargetsOf(rs, pair) ==
    {IF pair[1] = TypeTXT /\ (d = <<>> \/ d[1] # Q) THEN <<Q>> \o d \o <<Q>> ELSE d :
        d \in DestinationsOf(rs, pair)}

\* C5 as stated: the grouping yields one endpoint per distinct (type,
\* hostname) pair, whose target set is the set of destinations of the pair.
C5_Original ==
    call.fn = "group" =>
        \E o \in MapOrders(PairsOf(call.records)) :
            /\ Len(call.result) = Len(o)
            /\ \A i \in DOMAIN o :
                  /\ call.result[i].RecordType = o[i][1]
                  /\ Range(call.result[i].Targets) = DestinationsOf(call.records, o[i])

\* C5 (amended): the grouping yields one endpoint per distinct (type,
\* hostname) pair, whose target set is the set of destinations of the pair,
\* each TXT destination that does not begin with a double quote being wrapped
\* in one pair of double quotes.
C5_ReadGrouping ==
    call.fn = "group" =>
        \E o \in MapOrders(PairsOf(call.records)) :
            /\ Len(call.result) = Len(o)
            /\ \A i \in DOMAIN o :
                  /\ call.result[i].RecordType = o[i][1]
                  /\ Range(call.result[i].Targets) = TargetsOf(call.records, o[i])

\* two A records of one hostname grouped into one endpoint with two targets
C5_Witness ==
    /\ call.fn = "group"
    /\ Len(call.records) = 2
    /\ Len(call.result) = 1
    /\ Range(call.result[1].Targets) = {V5, V6}

\* C7: getIDforRecord returns the Id of the first snapshot record equal to
\* the candidate on type, hostname and quote-stripped destination, "" when
\* there is none; the quoted and the unquoted form of a target resolve alike.
C7_IdResolution ==
    call.fn = "resolve" =>
        LET m == Matching(recs, call.recordName, call.target, call.recordType)
        IN  /\ call.id = IF m = {} THEN "" ELSE recs[Min(m)].Id
            /\ getIDforRecord(call.recordName, Quoted(Trim(call.target)),
                              call.recordType, recs) = call.id
            /\ getIDforRecord(call.recordName, Trim(call.target),
                              call.recordType, recs) = call.id

\* a quoted target resolved to the first of two matching records, which is
\* stored unquoted
C7_Witness ==
    /\ call.fn = "resolve"
    /\ call.target = Quoted(VH)
    /\ Len(recs) = 2
    /\ recs[1].Destination = VH
    /\ recs[2].Destination = Quoted(VH)
    /\ call.id = recs[1].Id
    /\ call.id # recs[2].Id
    /\ call.id # ""

\* C10 as stated: an endpoint named as the zone translates to hostname "@",
\* and a remote record with hostname "@" or an empty hostname reads back as
\* an endpoint named exactly as the zone.
C10_Original ==
    /\ call.fn = "convert" =>
          \A k \in DOMAIN call.endpoints :
              call.endpoints[k].DNSName = call.zoneName =>
                  \A j \in DOMAIN call.endpoints[k].Targets :
                      \/ call.DeleteRecord
                      \/ call.records[TargetsBefore(call.endpoints, k) + j].Hostname = At
    /\ call.fn = "group" =>
          \A n \in DOMAIN call.records :
              call.records[n].Hostname \in {At, <<>>} =>
                  \E i \in DOMAIN call.result :
                      /\ call.result[i].RecordType = call.records[n].Type
                      /\ groupDestination(call.records[n]) \in Range(call.result[i].Targets)
                      /\ call.result[i].DNSName = call.domain

(***************************************************************************)
(* Properties of Records and ApplyChanges, checked under Spec.             *)
(***************************************************************************)
ChangeTypes == {"Create", "UpdateOld", "UpdateNew", "Delete"}

\* the zones of `zones` that are a suffix of the name
SuffixZones(name, zones) == {z \in zones : HasSuffix(name, z)}

\* the longest zone of `zones` that is a suffix of the name is z
IsLongestSuffixZone(z, name, zones) ==
    /\ z \in SuffixZones(name, zones)
    /\ \A y \in SuffixZones(name, zones) : Len(y) <= Len(z)

\* the endpoints of a change set, of every list
ChangeSetEndpoints(changes) ==
    UNION {Range(changes[t]) : t \in ChangeTypes}

\* C6 as stated: the zone ApplyChanges plans an endpoint for is the longest
\* configured zone that is a suffix of its name, whatever the order in which
\* the zones are examined, and an endpoint no configured zone is a suffix of
\* is planned for no zone.
C6_Original ==
    (ret.op = "ApplyChanges" /\ ret.planned) =>
        /\ \A z \in DOMAIN ret.perZoneChanges : \A t \in ChangeTypes :
              \A i \in DOMAIN ret.perZoneChanges[z][t] :
                  IsLongestSuffixZone(z, ret.perZoneChanges[z][t][i].DNSName,
                                      DOMAIN ret.perZoneChanges)
        /\ \A t \in ChangeTypes : \A k \in DOMAIN ret.changes[t] :
              SuffixZones(ret.changes[t][k].DNSName, DOMAIN ret.perZoneChanges) = {} =>
                  \A z \in DOMAIN ret.perZoneChanges :
                      ret.changes[t][k] \notin Range(ret.perZoneChanges[z][t])
        /\ ~ret.panic

\* C8 as stated: in a dry run, ApplyChanges called with a change set that is
\* not empty makes no transport call and returns no error, whatever zones
\* are configured.
C8_Original ==
    (dryRun /\ ret.op = "ApplyChanges" /\ ChangeSetEndpoints(ret.changes) # {}) =>
        /\ calls = <<>>
        /\ ~ret.err
        /\ ~ret.panic

\* C9: in a dry run, Records makes no transport call (no login, no remote
\* read) and returns an empty list that is not nil, and no error, whatever
\* zones are configured.
C9_DryRunRead ==
    (dryRun /\ ret.op = "Records") =>
        /\ calls = <<>>
        /\ ret.endpoints = <<>>
        /\ ~ret.isNil
        /\ ~ret.err
        /\ ~ret.panic

\* a dry-run Records over two zones of an account that holds records
C9_Witness ==
    /\ dryRun
    /\ ret.op = "Records"
    /\ domainFilter = <<ZoneBC, ZoneABC>>
    /\ remote = SeedRemote
    /\ calls = <<>>
    /\ ret.endpoints = <<>>

(***************************************************************************)
(* Mail exchanger targets, checked under SpecTranslate.                    *)
(***************************************************************************)
Digits == {"0", "1", "2", "3", "4", "5", "6", "7", "8", "9"}

DigitValue(d) == CHOOSE n \in 0..9 : ToString(n) = d

\* the number a string of digits denotes
RECURSIVE DecimalValue(_)
DecimalValue(s) ==
    IF s = <<>> THEN 0
    ELSE 10 * DecimalValue(SubSeq(s, 1, Len(s) - 1)) + DigitValue(s[Len(s)])

\* the string parses as an unsigned integer of 16 bits
IsUint16(s) ==
    /\ s # <<>>
    /\ Len(s) <= 5
    /\ \A i \in DOMAIN s : s[i] \in Digits
    /\ DecimalValue(s) <= 65535

\* the target has the form "<priority> <host>": two words about one blank
IsPriorityHost(target) ==
    LET i == IndexOf(target, " ", 1)
    IN  /\ i > 1
        /\ i < Len(target)
        /\ IndexOf(target, " ", i + 1) = 0
        /\ IsUint16(SubSeq(target, 1, i - 1))

PriorityPart(target) == SubSeq(target, 1, IndexOf(target, " ", 1) - 1)
HostPart(target) == SubSeq(target, IndexOf(target, " ", 1) + 1, Len(target))

\* C11 as stated: of an MX endpoint, a target "<priority> <host>" whose
\* priority is an unsigned integer of 16 bits yields a record with that
\* priority and the destination <host>; any other target yields a record
\* with an empty priority and the target as its destination.
C11_Original ==
    (call.fn = "convert" /\ ~call.DeleteRecord) =>
        \A k \in DOMAIN call.endpoints :
            call.endpoints[k].RecordType = TypeMX =>
                \A j \in DOMAIN call.endpoints[k].Targets :
                    LET target == call.endpoints[k].Targets[j]
                        record == call.records[TargetsBefore(call.endpoints, k) + j]
                    IN  IF IsPriorityHost(target)
                        THEN /\ record.Priority = PriorityPart(target)
                             /\ record.Destination = HostPart(target)
                        ELSE /\ record.Priority = <<>>
                             /\ record.Destination = target

(***************************************************************************)
(* The constructor, checked under SpecTranslate.                           *)
(***************************************************************************)
\* C12: NewNetcupProvider returns nil and an error when the zone list is
\* empty, the customer ID is zero, the API key is empty or the API password
\* is empty, and a provider holding the zone list and the dry-run switch,
\* and no error, when all four are valid.
C12_ConstructionValidation ==
    call.fn = "new" =>
        IF \/ call.domainFilterList = <<>>
           \/ call.customerID = 0
           \/ call.apiKey = <<>>
           \/ call.apiPassword = <<>>
        THEN call.result.err /\ call.result.isNil
        ELSE /\ ~call.result.err
             /\ ~call.result.isNil
             /\ call.result.provider.domainFilter = call.domainFilterList
             /\ call.result.provider.dryRun = call.dryRun

\* a construction that is refused for its empty API password alone
C12_Witness ==
    /\ call.fn = "new"
    /\ call.domainFilterList = <<ZoneBC>>
    /\ call.customerID = 10
    /\ call.apiKey # <<>>
    /\ call.apiPassword = <<>>
    /\ call.result.isNil
    /\ call.result.err

(***************************************************************************)
(* Properties of ApplyChanges and Records on their error paths, checked    *)
(* under Spec.                                                             *)
(***************************************************************************)
\* C13: ApplyChanges called with a change set whose four lists are empty
\* returns no error and makes no transport call, in a dry run and in normal
\* mode.
C13_EmptyChangeSet ==
    (ret.op = "ApplyChanges" /\ \A t \in ChangeTypes : ret.changes[t] = <<>>) =>
        /\ calls = <<>>
        /\ ~ret.err
        /\ ~ret.panic
        /\ ~ret.planned

\* the empty change set applied in normal mode, on a provider whose zone
\* name cannot be encoded
C13_Witness ==
    /\ ~dryRun
    /\ domainFilter = <<ZoneBad>>
    /\ ret.op = "ApplyChanges"
    /\ ret.changes = Changes(<<>>, <<>>, <<>>, <<>>)
    /\ calls = <<>>
    /\ ~ret.err

\* the submit calls of the last operation for a zone, in order
SubmitsOf(zone) ==
    SelectSeq(calls, LAMBDA c : c.call = "UpdateDnsRecords" /\ c.zone = zone)

\* the record fetches of the last operation for a zone
FetchesOf(zone) ==
    SelectSeq(calls, LAMBDA c : c.call = "InfoDnsRecords" /\ c.zone = zone)

\* the zones ApplyChanges has a plan for
PlannedZones == IF ret.planned THEN DOMAIN ret.perZoneChanges ELSE {}

BatchOrder == <<"UpdateOld", "Delete", "Create", "UpdateNew">>

SubmitFailed(zone) ==
    \E i \in DOMAIN SubmitsOf(zone) : ~SubmitsOf(zone)[i].ok

\* C15 as stated: when a submit step fails for a zone, ApplyChanges makes no
\* further submit for that zone, but still fetches the snapshot and submits
\* the batches of every other configured zone.
C15_Original ==
    ret.op = "ApplyChanges" =>
        \A z \in PlannedZones :
            SubmitFailed(z) =>
                /\ ~SubmitsOf(z)[Len(SubmitsOf(z))].ok
                /\ \A i \in DOMAIN SubmitsOf(z) : i < Len(SubmitsOf(z)) => SubmitsOf(z)[i].ok
                /\ \A y \in PlannedZones \ {z} :
                      /\ FetchesOf(y) # <<>>
                      /\ SubmitsOf(y) # <<>>

\* the fetch of the zone's records has failed, with another status than "no records"
FetchFailed(zone) ==
    \E i \in DOMAIN FetchesOf(zone) : FetchesOf(zone)[i].outcome = "error"

\* C16 as stated: when the snapshot fetch of a zone fails (with another
\* status than "no records") or a submit step fails, ApplyChanges returns an
\* error; it returns none only if the fetch and the submits of every zone
\* have succeeded.  Stated of the calls that return.
C16_Original ==
    (ret.op = "ApplyChanges" /\ ~ret.panic) =>
        /\ (\E z \in RemoteZones : FetchFailed(z) \/ SubmitFailed(z)) => ret.err
        /\ (ret.planned /\ ~dryRun /\ ~ret.err) =>
              \A z \in PlannedZones :
                  /\ FetchesOf(z) # <<>>
                  /\ ~FetchFailed(z)
                  /\ SubmitsOf(z) # <<>>
                  /\ ~SubmitFailed(z)

\* the zone-info calls of the last operation for a zone
ZoneInfosOf(zone) ==
    SelectSeq(calls, LAMBDA c : c.call = "InfoDnsZone" /\ c.zone = zone)

\* the zone-info fetch, the parse of the zone's TTL or the record fetch has
\* failed for the zone
ZoneReadFailed(zone) ==
    \/ \E i \in DOMAIN ZoneInfosOf(zone) :
          ~ZoneInfosOf(zone)[i].ok \/ ZoneInfosOf(zone)[i].ttl = "x"
    \/ FetchFailed(zone)

\* the configured zones whose names can be encoded, by their encoded names
EncodedZones ==
    {toPunycode(domainFilter[i]).name :
        i \in {j \in DOMAIN domainFilter : ~toPunycode(domainFilter[j]).err}}

\* C17 as stated: when the zone-info fetch, the TTL parse or the record fetch
\* fails for a zone, Records returns no error and a list, and every other
\* configured zone is still read.
C17_Original ==
    ret.op = "Records" =>
        \A z \in RemoteZones :
            ZoneReadFailed(z) =>
                /\ ~ret.err
                /\ ~ret.isNil
                /\ \A y \in EncodedZones : ZoneInfosOf(y) # <<>>

\* the fetch of the zone's records was answered with the status "no records"
NoRecordsAnswered(zone) ==
    \E i \in DOMAIN FetchesOf(zone) : FetchesOf(zone)[i].outcome = "5029"

\* C18 as stated: when the record fetch of a zone is answered with the
\* status "no records", Records neither crashes nor returns an error for it:
\* unless another call fails, it returns a list and every configured zone is
\* read.
C18_Original ==
    ret.op = "Records" =>
        \A z \in RemoteZones :
            NoRecordsAnswered(z) =>
                /\ ~ret.panic
                /\ (\A y \in RemoteZones : ~ZoneReadFailed(y)) =>
                      /\ ~ret.err
                      /\ ~ret.isNil
                      /\ \A y \in EncodedZones : FetchesOf(y) # <<>>

\* C19 as stated: when the snapshot fetch of a zone is answered with the
\* status "no records", ApplyChanges translates the changes of the zone
\* against an empty snapshot and, unless a submit fails, submits the create
\* batch and the update-new batch of the zone.
C19_Original ==
    ret.op = "ApplyChanges" =>
        \A z \in PlannedZones :
            (NoRecordsAnswered(z) /\ ~SubmitFailed(z)) =>
                /\ ~ret.panic
                /\ \E i, j \in DOMAIN SubmitsOf(z) :
                      /\ i < j
                      /\ SubmitsOf(z)[i].batch = "Create"
                      /\ SubmitsOf(z)[i].records =
                            convertToNetcupRecord(<<>>, ret.perZoneChanges[z].Create, z, FALSE)
                      /\ SubmitsOf(z)[j].batch = "UpdateNew"
                      /\ SubmitsOf(z)[j].records =
                            convertToNetcupRecord(<<>>, ret.perZoneChanges[z].UpdateNew, z, FALSE)

\* the positions of the last operation's calls that are logouts
Logouts == {i \in DOMAIN calls : calls[i].call = "Logout"}

\* the login of the last operation has succeeded
LoggedIn == \E i \in DOMAIN calls : calls[i].call = "Login" /\ calls[i].ok

\* C20: in every execution of Records or ApplyChanges in which the login
\* succeeds, logout is called exactly once, as the last call of the
\* operation, after all of its fetch and submit calls, on the success path
\* and on every error path; without a login there is no logout.
C20_SessionRelease ==
    ret.op \in {"Records", "ApplyChanges"} =>
        IF LoggedIn
        THEN /\ Logouts = {Len(calls)}
             /\ calls[1].call = "Login"
             /\ \A i \in DOMAIN calls : calls[i].call = "Login" => i = 1
        ELSE Logouts = {}

\* an ApplyChanges that returns the error of a failed submit, after the logout
C20_Witness ==
    /\ ret.op = "ApplyChanges"
    /\ ret.err
    /\ SubmitFailed(ZoneBC)
    /\ LoggedIn
    /\ calls[Len(calls)].call = "Logout"
    /\ calls[Len(calls) - 1].call = "UpdateDnsRecords"

(***************************************************************************)
(* Zone names that cannot be encoded, checked under Spec.                  *)
(***************************************************************************)
\* a configured zone name that toPunycode rejects
UnencodableZones ==
    {domainFilter[i] : i \in {j \in DOMAIN domainFilter : toPunycode(domainFilter[j]).err}}

\* the zones the calls of the last operation are addressed to
AddressedZones ==
    {calls[i].zone : i \in {j \in DOMAIN calls : calls[j].call \notin {"Login", "Logout"}}}

MaxPlan == 2

\* the zone lists of the provider
PlanZoneLists ==
    { <<ZoneBC>>, <<ZoneABC>>, <<ZoneBC, ZoneABC>>, <<ZoneABC, ZoneBC>>,
      <<ZoneIDN>>, <<ZoneBC, ZoneIDN>>, <<ZoneBC, ZoneBad>> }

\* the records of the account: the zone with the non-ASCII label holds one too
PlanRemote ==
    [z \in RemoteZones |->
        IF z = toPunycode(ZoneIDN).name THEN <<DnsRecord("s4", HostA, TypeA, V5, FALSE)>>
        ELSE SeedRemote[z]]

\* the change set in the caller's memory, or none when the caller reads first
InitPlan ==
    /\ recs = <<>>
    /\ call \in {[fn |-> "read"]}
                \cup {[fn |-> "apply", changes |-> cs] : cs \in ChangeSetsUpTo(MaxPlan)}
    /\ domainFilter \in PlanZoneLists
    /\ dryRun \in BOOLEAN
    /\ remote = PlanRemote
    /\ nextId = 1
    /\ calls = <<>>
    /\ ret = [op |-> "none"]
    /\ ops = 0
    /\ failures = 0
    /\ Sequential

\* the targets of the endpoints with their quotes stripped
TrimTargets(endpoints) ==
    [i \in DOMAIN endpoints |->
        [endpoints[i] EXCEPT !.Targets = [k \in DOMAIN @ |-> Trim(@[k])]]]

\* a translation that strips the quotes of the targets in place, in the
\* endpoints the caller holds
suppliedTrimmed ==
    call' = [call EXCEPT !.changes = [t \in ChangeTypes |-> TrimTargets(@[t])]]

\* what the call leaves in the caller's change set: processChanges appends
\* the endpoints to the lists of the plans and convertToNetcupRecord builds
\* a list of its own, so neither writes to a list or an endpoint of the caller
suppliedAfter == call' = call

\* ApplyChanges with the change set of the caller
ApplySupplied ==
    /\ call.fn = "apply"
    /\ ops = 0
    /\ ApplyChangesOf({call.changes})
    /\ suppliedAfter

\* Records, by a caller that holds no change set
ReadZones ==
    /\ call.fn = "read"
    /\ ops = 0
    /\ Records

\* the change sets made of one endpoint that Records has returned
ReadChangeSets(endpoints) ==
    UNION {{Changes(<<endpoints[i]>>, <<>>, <<>>, <<>>),
            Changes(<<>>, <<>>, <<>>, <<endpoints[i]>>)} : i \in DOMAIN endpoints}

\* ApplyChanges with an endpoint of the list Records has returned
ApplyRead ==
    /\ call.fn = "read"
    /\ ret.op = "Records"
    /\ ~ret.isNil
    /\ ApplyChangesOf(ReadChangeSets(ret.endpoints))
    /\ UNCHANGED call

NextPlan == ApplySupplied \/ ReadZones \/ ApplyRead

SpecPlan == InitPlan /\ [][NextPlan]_vars

(***************************************************************************)
(* Properties of the change planning, checked under SpecPlan.              *)
(***************************************************************************)
\* s can be obtained from t by leaving elements out
RECURSIVE IsSubsequence(_, _)
IsSubsequence(s, t) ==
    IF s = <<>> THEN TRUE
    ELSE IF t = <<>> THEN FALSE
    ELSE IF Head(s) = Head(t) THEN IsSubsequence(Tail(s), Tail(t))
    ELSE IsSubsequence(s, Tail(t))

\* how often the endpoint occurs in the list
Occurrences(ep, list) == Cardinality({i \in DOMAIN list : list[i] = ep})

RECURSIVE SumOver(_, _)
SumOver(f, S) ==
    IF S = {} THEN 0
    ELSE LET x == CHOOSE y \in S : TRUE
         IN  f[x] + SumOver(f, S \ {x})

\* how often the endpoint occurs in the buckets of the category, over all zones
Planned(ep, t) ==
    SumOver([z \in PlannedZones |-> Occurrences(ep, ret.perZoneChanges[z][t])], PlannedZones)

\* the configured zones by their encoded names, in the configured order
EncodedZoneList == [i \in DOMAIN domainFilter |-> toPunycode(domainFilter[i]).name]

\* the endpoints of the list that the router assigns to the zone
RoutedTo(list, zone) ==
    SelectSeq(list, LAMBDA ep : endpointZoneName(ep, EncodedZoneList) = zone)

\* C22 as stated: ApplyChanges has a plan for every configured zone, and in
\* every category the bucket of a zone holds the endpoints of the input list
\* that route to the zone, each once and in input order; an endpoint is in
\* no other bucket, and an endpoint that routes to no zone is in none.
C22_Original ==
    (ret.op = "ApplyChanges" /\ ret.planned) =>
        /\ PlannedZones = EncodedZones
        /\ \A t \in ChangeTypes : \A z \in PlannedZones :
              ret.perZoneChanges[z][t] = RoutedTo(ret.changes[t], z)

\* what holds of the plan for every order in which the zones are examined:
\* a plan for every configured zone; a bucket holds endpoints of the input
\* list of its category that the zone is a suffix of, in input order; an
\* endpoint some zone is a suffix of is in the buckets of its category as
\* often as in the input list, and any other endpoint in none
PlanStructure ==
    (ret.op = "ApplyChanges" /\ ret.planned) =>
        /\ PlannedZones = EncodedZones
        /\ \A t \in ChangeTypes :
              /\ \A z \in PlannedZones :
                    IsSubsequence(ret.perZoneChanges[z][t],
                                  SelectSeq(ret.changes[t],
                                            LAMBDA ep : HasSuffix(ep.DNSName, z)))
              /\ \A ep \in Range(ret.changes[t]) :
                    Planned(ep, t) =
                        IF SuffixZones(ep.DNSName, PlannedZones) = {} THEN 0
                        ELSE Occurrences(ep, ret.changes[t])

(***************************************************************************)
(* Identifiers of create batches, checked under SpecTranslate.             *)
(***************************************************************************)
\* C23: every record convertToNetcupRecord emits for a batch that is no
\* deletion has an empty Id and DeleteRecord = FALSE, whatever the snapshot
\* holds, also when it holds a record with the same hostname, type and
\* destination.
C23_CreateWithoutId ==
    (call.fn = "convert" /\ ~call.DeleteRecord) =>
        \A i \in DOMAIN call.records :
            /\ call.records[i].Id = ""
            /\ ~call.records[i].DeleteRecord

\* a create batch for a.b.c A 5 against a snapshot that holds this record
\* under the Id 1
C23_Witness ==
    /\ call.fn = "convert"
    /\ ~call.DeleteRecord
    /\ call.records # <<>>
    /\ \E i \in DOMAIN call.records : \E k \in DOMAIN recs :
          /\ recs[k].Id # ""
          /\ recs[k].Hostname = call.records[i].Hostname
          /\ recs[k].Type = call.records[i].Type
          /\ recs[k].Destination = call.records[i].Destination
          /\ call.records[i].Id = ""

(***************************************************************************)
(* The records of the account after ApplyChanges, checked under SpecPlan,  *)
(* where every ApplyChanges starts from the records of PlanRemote.         *)
(***************************************************************************)
\* the zone holds a record for the target of the endpoint
Holds(rs, ep, zone, target) ==
    \E k \in DOMAIN rs :
        /\ rs[k].Hostname = recordNameOf(ep, zone)
        /\ rs[k].Type = ep.RecordType
        /\ rs[k].Destination = Trim(target)

\* ApplyChanges has run in normal mode and returned no error
Applied ==
    /\ ret.op = "ApplyChanges"
    /\ ~dryRun
    /\ ret.planned
    /\ ~ret.err
    /\ ~ret.panic
    /\ \A z \in PlannedZones : ~SubmitFailed(z)

\* the updates of the change set that replace targets, when the change set
\* has no other endpoint of the same name
Replacements ==
    {i \in DOMAIN ret.changes.UpdateOld :
        /\ ret.changes.UpdateOld[i].Targets # ret.changes.UpdateNew[i].Targets
        /\ \A t \in {"Create", "Delete"} : \A k \in DOMAIN ret.changes[t] :
              ret.changes[t][k].DNSName # ret.changes.UpdateOld[i].DNSName
        /\ \A k \in DOMAIN ret.changes.UpdateOld :
              ret.changes.UpdateOld[k].DNSName = ret.changes.UpdateOld[i].DNSName => k = i}

\* C24 as stated: after an ApplyChanges whose submits all succeed, for every
\* update with the same name and type and different targets, the zone of
\* the name holds a record for each new target and none for an old target
\* that is not a new target.
C24_Original ==
    Applied =>
        \A i \in Replacements :
            LET old == ret.changes.UpdateOld[i]
                new == ret.changes.UpdateNew[i]
                zone == endpointZoneName(new, EncodedZoneList)
            IN  zone # <<>> =>
                   /\ \A k \in DOMAIN new.Targets :
                         Holds(remote[zone], new, zone, new.Targets[k])
                   /\ \A k \in DOMAIN old.Targets :
                         (\A j \in DOMAIN new.Targets :
                             Trim(new.Targets[j]) # Trim(old.Targets[k])) =>
                                ~Holds(remote[zone], old, zone, old.Targets[k])

(***************************************************************************)
(* The records of the account over a sequence of calls, checked under      *)
(* Spec, whose account starts with at most one record per hostname, type   *)
(* and destination.                                                        *)
(***************************************************************************)
\* the pairs of records of the zone with the same hostname, type and destination
Duplicates(rs) ==
    {<<i, j>> \in (DOMAIN rs) \X (DOMAIN rs) :
        /\ i < j
        /\ rs[i].Hostname = rs[j].Hostname
        /\ rs[i].Type = rs[j].Type
        /\ rs[i].Destination = rs[j].Destination}

\* C25 as stated: as long as no call has failed, after ApplyChanges every
\* zone holds at most one record per hostname, type and destination, also
\* after creating a target that the zone holds already.
C25_Original ==
    (ret.op = "ApplyChanges" /\ failures = 0 /\ ~ret.err /\ ~ret.panic) =>
        \A z \in RemoteZones : Duplicates(remote[z]) = {}

(***************************************************************************)
(* The change set of the caller, checked under SpecPlan.                   *)
(***************************************************************************)
\* the endpoints in the buckets of the plans
PlannedEndpoints ==
    UNION {Range(ret.perZoneChanges[z][t]) : z \in PlannedZones, t \in ChangeTypes}

MxTarget(rec) == rec.Priority \o <<" ">> \o rec.Destination

\* C27 as stated: for every MX record with a priority among the records of
\* a zone, the endpoint Records yields for its hostname has the target
\* "<priority> <destination>", and convertToNetcupRecord translates this
\* endpoint back to a record with the priority and the destination of the
\* remote record.
C27_Original ==
    call.fn = "group" =>
        \A i \in DOMAIN call.records :
            LET rec == call.records[i]
            IN  (rec.Type = TypeMX /\ rec.Priority # <<>>) =>
                   \E k \in DOMAIN call.result :
                       LET ep == call.result[k]
                           back == convertToNetcupRecord(<<>>, <<ep>>, call.domain, FALSE)
                       IN  /\ ep.RecordType = TypeMX
                           /\ ep.DNSName = groupName(rec.Hostname, call.domain)
                           /\ MxTarget(rec) \in Range(ep.Targets)
                           /\ \E j \in DOMAIN back :
                                 /\ back[j].Priority = rec.Priority
                                 /\ back[j].Destination = rec.Destination

(***************************************************************************)
(* Routing and label boundaries, checked under SpecTranslate.              *)
(***************************************************************************)
\* the name is the zone name, or ends with "." and the zone name
InZone(name, zone) == name = zone \/ HasSuffix(name, <<".">> \o zone)

\* C28 as stated: endpointZoneName assigns a name to a zone only if the name
\* is the zone name or ends with "." and the zone name, so that the hostname
\* convertToNetcupRecord derives for the zone is "@" or does not end with
\* the zone name; a name that only ends with the characters of a zone is
\* assigned to no zone.
C28_Original ==
    call.fn = "route" =>
        /\ call.zone # <<>> =>
              /\ InZone(call.name, call.zone)
              /\ LET hostname == recordNameOf(Endpoint(call.name, TypeA, <<V5>>, 0), call.zone)
                 IN  hostname = At \/ ~HasSuffix(hostname, call.zone)
        /\ (\A i \in DOMAIN call.zones : ~InZone(call.name, call.zones[i])) =>
              call.zone = <<>>

(***************************************************************************)
(* Endpoints read and passed back, checked under SpecPlan, where Records   *)
(* reads the records of PlanRemote.                                        *)
(***************************************************************************)
\* the endpoint is what Records yields in the zone for a group the record is in
ReadFrom(ep, rec, domain) ==
    /\ ep.DNSName = groupName(rec.Hostname, domain)
    /\ ep.RecordType = rec.Type
    /\ groupDestination(rec) \in Range(ep.Targets)

\* C30 as stated: an endpoint that Records has returned for a configured
\* zone and that is passed back in a change set is planned by ApplyChanges
\* for that zone, under its encoded name, and its hostname there is the
\* hostname of the remote record it was read from; also for a zone whose
\* name has a non-ASCII label.  Stated of the calls that return no error.
C30_Original ==
    (call.fn = "read" /\ ret.op = "ApplyChanges" /\ ret.planned /\ ~ret.err /\ ~ret.panic) =>
        \A t \in ChangeTypes : \A k \in DOMAIN ret.changes[t] :
            \A i \in DOMAIN domainFilter :
                LET ep == ret.changes[t][k]
                    domain == domainFilter[i]
                    zoneName == toPunycode(domain).name
                IN  \A n \in DOMAIN PlanRemote[zoneName] :
                        ReadFrom(ep, PlanRemote[zoneName][n], domain) =>
                            /\ ep \in Range(ret.perZoneChanges[zoneName][t])
                            /\ recordNameOf(ep, zoneName) = PlanRemote[zoneName][n].Hostname

(***************************************************************************)
(* Operations running concurrently on one provider.  The webhook server    *)
(* serves every request in a goroutine of its own and all of them call the *)
(* same provider; what an operation fetches and submits is left out here,  *)
(* only the session each of its calls is made on is followed.              *)
(***************************************************************************)
MaxGoroutines == 2

Goroutines == 1..MaxGoroutines

\* the remote calls of an operation on one zone, in order
CallsOf(op) ==
    IF op = "Records" THEN <<"InfoDnsZone", "InfoDnsRecords">>
    ELSE <<"InfoDnsRecords", "UpdateDnsRecords", "UpdateDnsRecords",
           "UpdateDnsRecords", "UpdateDnsRecords">>

\* the locals of a goroutine: the session its login returned (own), whether
\* it has assigned it to p.session, the session its deferred logout is bound
\* to, the calls it has still to make, and the session its last call was
\* made on
Idle ==
    [at |-> "idle", op |-> "none", own |-> NoSession, stored |-> FALSE,
     deferred |-> NoSession, left |-> <<>>, used |-> NoSession, usedActive |-> FALSE]

\* p.session is read and written without synchronisation: a read by a
\* goroutine that has stored its session yields its own session or one that
\* another goroutine has stored
readSession(g) ==
    {session, goroutine[g].own} \cup {goroutine[h].own : h \in {k \in Goroutines : goroutine[k].stored}}

InitConcurrent ==
    /\ recs = <<>>
    /\ call = [fn |-> "none"]
    /\ domainFilter = <<ZoneBC>>
    /\ dryRun \in BOOLEAN
    /\ remote = SeedRemote
    /\ nextId = 1
    /\ calls = <<>>
    /\ ret = [op |-> "none"]
    /\ ops = 0
    /\ failures = 0
    /\ session = NoSession
    /\ active = {}
    /\ goroutine = [g \in Goroutines |-> Idle]

\* the configuration, the records of the account and the bookkeeping of the
\* sequential operations, which the steps of a goroutine leave as they are
provider == <<recs, call, domainFilter, dryRun, remote, nextId, calls, ret, ops, failures>>

\* a request arrives: Records or ApplyChanges is called; in a dry run the
\* operation makes no call
Serve(g) ==
    /\ goroutine[g].at = "idle"
    /\ \E op \in {"Records", "ApplyChanges"} :
          goroutine' = [goroutine EXCEPT ![g].op = op,
                                         ![g].at = IF dryRun THEN "done" ELSE "login"]
    /\ UNCHANGED <<session, active>>
    /\ UNCHANGED provider

\* ensureLogin: session, err := p.client.Login()
Login(g) ==
    /\ goroutine[g].at = "login"
    /\ \E ok \in BOOLEAN :
          IF ok
          THEN /\ goroutine' = [goroutine EXCEPT ![g].own = g, ![g].at = "store"]
               /\ active' = active \cup {g}
          ELSE /\ goroutine' = [goroutine EXCEPT ![g].at = "done"]
               /\ active' = active
    /\ UNCHANGED session
    /\ UNCHANGED provider

\* ensureLogin: p.session = session
Store(g) ==
    /\ goroutine[g].at = "store"
    /\ session' = goroutine[g].own
    /\ goroutine' = [goroutine EXCEPT ![g].stored = TRUE, ![g].at = "defer"]
    /\ UNCHANGED active
    /\ UNCHANGED provider

\* defer p.session.Logout(): the receiver is read when the defer statement runs
Defer(g) ==
    /\ goroutine[g].at = "defer"
    /\ \E s \in readSession(g) :
          goroutine' = [goroutine EXCEPT ![g].deferred = s,
                                         ![g].left = CallsOf(goroutine[g].op),
                                         ![g].at = "call"]
    /\ UNCHANGED <<session, active>>
    /\ UNCHANGED provider

\* p.session.InfoDnsZone, InfoDnsRecords or UpdateDnsRecords: a call on a
\* session that is logged out fails, and the operation returns its error,
\* except ApplyChanges after a failed fetch
Call(g) ==
    /\ goroutine[g].at = "call"
    /\ goroutine[g].left # <<>>
    /\ \E s \in readSession(g) :
          LET ok == s \in active
              goesOn == ok \/ (goroutine[g].op = "ApplyChanges"
                               /\ Head(goroutine[g].left) = "InfoDnsRecords")
              left == IF goesOn THEN Tail(goroutine[g].left) ELSE <<>>
          IN  goroutine' = [goroutine EXCEPT ![g].used = s, ![g].usedActive = ok,
                                             ![g].left = left,
                                             ![g].at = IF left = <<>> THEN "return" ELSE "call"]
    /\ UNCHANGED <<session, active>>
    /\ UNCHANGED provider

\* the operation returns: the deferred Logout runs on the session it is bound to
Return(g) ==
    /\ goroutine[g].at = "return"
    /\ active' = active \ {goroutine[g].deferred}
    /\ goroutine' = [goroutine EXCEPT ![g].at = "done"]
    /\ UNCHANGED session
    /\ UNCHANGED provider

NextConcurrent ==
    \E g \in Goroutines :
        Serve(g) \/ Login(g) \/ Store(g) \/ Defer(g) \/ Call(g) \/ Return(g)

SpecConcurrent == InitConcurrent /\ [][NextConcurrent]_vars

\* C29 as stated: when operations run concurrently on one provider, every
\* fetch and submit call of an operation is made on the session the
\* operation has obtained from its own login, and on no session that
\* another operation has logged out.
C29_Original ==
    \A g \in Goroutines :
        goroutine[g].used # NoSession =>
            /\ goroutine[g].used = goroutine[g].own
            /\ goroutine[g].usedActive

====
